---- MODULE Spec2Model ----
(***************************************************************************)
(* xprezzo-finalhandler: the final step of a request (src/index.js).       *)
(*                                                                         *)
(* finalhandler(req, res, options) returns finish(err).  finish writes a   *)
(* 404 document (err falsy) or an error document (err truthy) on res,      *)
(* after the request stream has been unpiped and drained.                  *)
(*                                                                         *)
(* Text is a sequence of pieces.  A piece is a string; the characters the  *)
(* code treats specially (the five HTML characters, newline, space, the    *)
(* non-ASCII character) are always pieces of their own, so the escaping    *)
(* and encoding functions work piece by piece.                             *)
(***************************************************************************)
EXTENDS Integers, Sequences, FiniteSets, TLC

(***************************************************************************)
(* Bounds of the model.                                                    *)
(***************************************************************************)
\* body chunks of the request that may still be unread when finish is called
MaxChunks == 2
\* invocations of the returned handler on one request/response pair
MaxCalls == 2

(***************************************************************************)
(* JavaScript values of the status-like fields.  A number is an integer n, *)
(* n + 0.5 (k = "half") or NaN.                                            *)
(***************************************************************************)
Num(n) == [t |-> "number", k |-> "int", n |-> n]
Half(n) == [t |-> "number", k |-> "half", n |-> n]
NaN == [t |-> "number", k |-> "nan", n |-> 0]
Undefined == [t |-> "undefined", k |-> "", n |-> 0]
OhNo == [t |-> "string", k |-> "oh no", n |-> 0]

\* v >= c, v < c, v > c for a number v and an integer literal c (NaN compares false)
Ge(v, c) == v.k # "nan" /\ v.n >= c
Lt(v, c) == v.k # "nan" /\ v.n < c
Gt(v, c) == v.k # "nan" /\ (IF v.k = "half" THEN v.n >= c ELSE v.n > c)

\* String(status) as a piece
String(v) ==
  CASE v.t = "undefined" -> "undefined"
    [] v.t = "string" -> v.k
    [] v.k = "nan" -> "NaN"
    [] v.k = "half" -> ToString(v.n) \o ".5"
    [] OTHER -> ToString(v.n)

(***************************************************************************)
(* statuses.message: the reason phrases of the registered codes, for the   *)
(* codes the model uses.  Any other key (599, a fraction, NaN) is          *)
(* unregistered: the lookup is undefined, modelled as the empty text.      *)
(***************************************************************************)
statuses_message(v) ==
  IF v.t # "number" \/ v.k # "int" THEN << >>
  ELSE CASE v.n = 400 -> <<"Bad", " ", "Request">>
         [] v.n = 401 -> <<"Unauthorized">>
         [] v.n = 404 -> <<"Not", " ", "Found">>
         [] v.n = 410 -> <<"Gone">>
         [] v.n = 429 -> <<"Too", " ", "Many", " ", "Requests">>
         [] v.n = 500 -> <<"Internal", " ", "Server", " ", "Error">>
         [] v.n = 501 -> <<"Not", " ", "Implemented">>
         [] v.n = 503 -> <<"Service", " ", "Unavailable">>
         [] OTHER -> << >>

(***************************************************************************)
(* Text helpers.                                                           *)
(***************************************************************************)
\* the one non-ASCII character of the model, U+00A7, as a piece of its own
SectionSign == "U+00A7"

\* Buffer.byteLength(text, 'utf8'): U+00A7 takes two bytes
PieceBytes(p) == IF p = SectionSign THEN 2 ELSE Len(p)

RECURSIVE byteSum(_, _)
byteSum(text, n) == IF n = 0 THEN 0 ELSE PieceBytes(text[n]) + byteSum(text, n - 1)

\* (the text is bound as a value, so that it is evaluated once)
byteLength(text) == CHOOSE n \in {byteSum(t, Len(t)) : t \in {text}} : TRUE

\* the number of characters (UTF-16 units) of a text
RECURSIVE charSum(_, _)
charSum(text, n) ==
  IF n = 0 THEN 0
  ELSE (IF text[n] = SectionSign THEN 1 ELSE Len(text[n])) + charSum(text, n - 1)

charLength(text) == CHOOSE n \in {charSum(t, Len(t)) : t \in {text}} : TRUE

\* escape-html: the five characters become entities
escapeHtmlPiece(p) ==
  CASE p = "\"" -> "&quot;"
    [] p = "&" -> "&amp;"
    [] p = "'" -> "&#39;"
    [] p = "<" -> "&lt;"
    [] p = ">" -> "&gt;"
    [] OTHER -> p

escapeHtml(text) == [i \in 1..Len(text) |-> escapeHtmlPiece(text[i])]

\* .replace(NEWLINE_REGEXP, '<br>')
replaceNewlines(text) ==
  [i \in 1..Len(text) |-> IF text[i] = "\n" THEN "<br>" ELSE text[i]]

\* .replace(DOUBLE_SPACE_REGEXP, ' &nbsp;'): left to right, non-overlapping
RECURSIVE replaceDoubleSpaces(_)
replaceDoubleSpaces(text) ==
  IF Len(text) < 2 THEN text
  ELSE IF text[1] = " " /\ text[2] = " "
       THEN <<" &nbsp;">> \o replaceDoubleSpaces(Tail(Tail(text)))
       ELSE <<text[1]>> \o replaceDoubleSpaces(Tail(text))

createHtmlDocument(message) ==
  LET body == replaceDoubleSpaces(replaceNewlines(escapeHtml(message)))
  IN  <<"<!DOCTYPE html>", "\n",
        "<html lang=\"en\">", "\n",
        "<head>", "\n",
        "<meta charset=\"utf-8\">", "\n",
        "<title>Error</title>", "\n",
        "</head>", "\n",
        "<body>", "\n",
        "<pre>">> \o body \o <<"</pre>", "\n",
        "</body>", "\n",
        "</html>", "\n">>

\* encodeurl: characters outside the URL set are percent-encoded as UTF-8,
\* existing %XX sequences and reserved characters (such as ') are kept
encodeUrlPiece(p) ==
  CASE p = "<" -> "%3C"
    [] p = ">" -> "%3E"
    [] p = " " -> "%20"
    [] p = "\"" -> "%22"
    [] p = SectionSign -> "%C2%A7"
    [] OTHER -> p

encodeUrl(text) == [i \in 1..Len(text) |-> encodeUrlPiece(text[i])]

(***************************************************************************)
(* The error value passed to finish.                                       *)
(*   truthy      whether `if (err)` takes the error branch                 *)
(*   status, statusCode   JavaScript values                                *)
(*   headers     [t, entries]: undefined, a string, or an object whose     *)
(*               own keys, in order, are entries (<<name, value>> pairs)   *)
(*   stack       a text; << >> is undefined or ''                          *)
(*   toStr       [callable, text]: err.toString and what it returns        *)
(***************************************************************************)
HUndefined == [t |-> "undefined", entries |-> << >>]
HString == [t |-> "string", entries |-> << >>]
HObject(es) == [t |-> "object", entries |-> es]

NoErr ==
  [truthy |-> FALSE, status |-> Undefined, statusCode |-> Undefined,
   headers |-> HUndefined, stack |-> << >>,
   toStr |-> [callable |-> FALSE, text |-> << >>]]

getErrorHeaders(e) ==
  IF e.headers.t # "object" THEN HUndefined ELSE HObject(e.headers.entries)

\* the stack shown whatever the environment
getErrorMessageAnyEnv(e, status, env) ==
  LET msg == IF e.stack = << >> /\ e.toStr.callable THEN e.toStr.text ELSE e.stack
  IN  IF msg # << >> THEN msg
      ELSE IF statuses_message(status) # << >> THEN statuses_message(status)
      ELSE <<String(status)>>

getErrorMessage(e, status, env) ==
  LET stack == IF env # "production" THEN e.stack ELSE << >>
      msg == IF env # "production" /\ stack = << >> /\ e.toStr.callable
             THEN e.toStr.text ELSE stack
  IN  IF msg # << >> THEN msg
      ELSE IF statuses_message(status) # << >> THEN statuses_message(status)
      ELSE <<String(status)>>

getErrorStatusCode(e) ==
  IF e.status.t = "number" /\ Ge(e.status, 400) /\ Lt(e.status, 600)
  THEN e.status
  ELSE IF e.statusCode.t = "number" /\ Ge(e.statusCode, 400) /\ Lt(e.statusCode, 600)
  THEN e.statusCode
  ELSE Undefined

\* the lower limit taken as exclusive
getResponseStatusCodeAbove400(r) ==
  LET status == r.statusCode
  IN  IF status.t # "number" \/ ~Gt(status, 400) \/ Gt(status, 599)
      THEN Num(500) ELSE status

getResponseStatusCode(r) ==
  LET status == r.statusCode
  IN  IF status.t # "number" \/ Lt(status, 400) \/ Gt(status, 599)
      THEN Num(500) ELSE status

(***************************************************************************)
(* The request.  url and originalUrl are undefined or a string, [t, text]; *)
(* parseurl keeps what comes before the first "?" as the pathname.         *)
(***************************************************************************)
UrlUndefined == [t |-> "undefined", text |-> << >>]
Url(text) == [t |-> "string", text |-> text]

RECURSIVE pathname(_)
pathname(text) ==
  IF text = << >> \/ Head(text) = "?" THEN << >>
  ELSE <<Head(text)>> \o pathname(Tail(text))

\* parseUrl.original(req).pathname, 'resource' when that throws
getResourceName(q) ==
  IF q.originalUrl.t = "string" THEN pathname(q.originalUrl.text)
  ELSE IF q.url.t = "string" THEN pathname(q.url.text)
  ELSE <<"resource">>

\* onFinished.isFinished(req)
isFinished(q) == q.finished

(***************************************************************************)
(* The response: [statusCode, statusMessage, headers, _header, finished,   *)
(* body, log].  headers maps names to values (all values are strings, as   *)
(* on the wire); _header is set once the header block has been generated;  *)
(* body is the sequence of chunks written.  log is a record of what the    *)
(* handler has done to the response, in order: one entry for every run of  *)
(* write and for every call of res.end the handler makes.                  *)
(***************************************************************************)
\* op is "write" or "end"; sent and reqFinished are headersSent(res) and
\* isFinished(req) at that moment
Op(op, q, r) == [op |-> op, sent |-> r._header, reqFinished |-> q.finished]

logOp(r, op, q) == [r EXCEPT !.log = Append(@, Op(op, q, r))]

\* res.headersSent is the getter for Boolean(res._header); without that
\* property the code reads res._header itself
headersSent(r) == r._header

\* res.setHeader(name, value) on a response whose headers are not sent
setHeader(r, name, value) == [r EXCEPT !.headers = (name :> value) @@ @]

\* res.setHeader validates its arguments and throws on a name that is not an
\* HTTP token or a value with a control character (for the names and values
\* of the model)
InvalidHeaderNames == {"", "Bad Name"}
InvalidHeaderValues == {"line\nbreak"}

validHeader(name, value) ==
  name \notin InvalidHeaderNames /\ value \notin InvalidHeaderValues

\* the loop of setHeaders: the entries before an invalid one have been set
\* when res.setHeader throws
RECURSIVE setEntries(_, _)
setEntries(r, entries) ==
  IF entries = << >> THEN [res |-> r, threw |-> FALSE]
  ELSE IF ~validHeader(Head(entries)[1], Head(entries)[2])
       THEN [res |-> r, threw |-> TRUE]
       ELSE setEntries(setHeader(r, Head(entries)[1], Head(entries)[2]), Tail(entries))

setHeaders(r, headers) ==
  IF headers.t # "object" THEN [res |-> r, threw |-> FALSE]
  ELSE setEntries(r, headers.entries)

\* res.end generates the header block from res.statusCode: writeHead throws
\* on a code that, as a 32-bit integer, is not in [100, 999]
validStatusCode(v) ==
  v.t = "number" /\ v.k # "nan" /\ v.n >= 100 /\ v.n <= 999

\* res.end(chunk): a finished response ignores it; otherwise the header
\* block goes out, then the chunk when it is not empty
resEnd(r, chunk) ==
  IF r.finished THEN r
  ELSE [r EXCEPT !._header = TRUE, !.finished = TRUE,
                 !.body = IF chunk = << >> THEN @ ELSE Append(@, chunk)]

statusMessageOf(status) ==
  IF statuses_message(status) # << >> THEN statuses_message(status)
  ELSE <<String(status)>>

\* the caller-supplied headers applied after the security and standard headers
writeHeadersLast(q, r, c) ==
  LET body == createHtmlDocument(c.message)
      r1 == [logOp(r, "write", q) EXCEPT !.statusCode = c.status,
                                         !.statusMessage = statusMessageOf(c.status)]
      r2 == r1
      r3 == setHeader(setHeader(r2, "Content-Security-Policy", "default-src 'none'"),
                      "X-Content-Type-Options", "nosniff")
      h == setHeaders(
             setHeader(setHeader(r3, "Content-Type", "text/html; charset=utf-8"),
                       "Content-Length", ToString(byteLength(body))),
             c.headers)
      r4 == h.res
  IN  IF r1._header THEN [res |-> r1, threw |-> TRUE]
      ELSE IF h.threw \/ ~validStatusCode(c.status) THEN [res |-> r4, threw |-> TRUE]
      ELSE IF q.method = "HEAD"
      THEN [res |-> resEnd(logOp(r4, "end", q), << >>), threw |-> FALSE]
      ELSE [res |-> resEnd(logOp(r4, "end", q), body), threw |-> FALSE]

\* the document written whatever the method
writeBodyAlways(q, r, c) ==
  LET body == createHtmlDocument(c.message)
      r1 == [logOp(r, "write", q) EXCEPT !.statusCode = c.status,
                                         !.statusMessage = statusMessageOf(c.status)]
      h == setHeaders(r1, c.headers)
      r2 == h.res
      r3 == setHeader(setHeader(r2, "Content-Security-Policy", "default-src 'none'"),
                      "X-Content-Type-Options", "nosniff")
      r4 == setHeader(setHeader(r3, "Content-Type", "text/html; charset=utf-8"),
                      "Content-Length", ToString(byteLength(body)))
  IN  IF r1._header THEN [res |-> r1, threw |-> TRUE]
      ELSE IF h.threw THEN [res |-> r2, threw |-> TRUE]
      ELSE IF ~validStatusCode(c.status) THEN [res |-> r4, threw |-> TRUE]
      ELSE [res |-> resEnd(logOp(r4, "end", q), body), threw |-> FALSE]

(***************************************************************************)
(* write, the closure of sendResponse over (req, res, status, headers,     *)
(* message).  c is the closure's captured [status, headers, message].      *)
(* res.setHeader throws once the headers are sent: the two assignments     *)
(* before it have happened, nothing after it has.  It throws on an invalid *)
(* entry of the error's headers, with the entries before it set; res.end   *)
(* throws on an invalid status code, with every header set and nothing     *)
(* sent.                                                                   *)
(***************************************************************************)
write(q, r, c) ==
  LET body == createHtmlDocument(c.message)
      r1 == [logOp(r, "write", q) EXCEPT !.statusCode = c.status,
                                         !.statusMessage = statusMessageOf(c.status)]
      h == setHeaders(r1, c.headers)
      r2 == h.res
      r3 == setHeader(setHeader(r2, "Content-Security-Policy", "default-src 'none'"),
                      "X-Content-Type-Options", "nosniff")
      r4 == setHeader(setHeader(r3, "Content-Type", "text/html; charset=utf-8"),
                      "Content-Length", ToString(byteLength(body)))
  IN  IF r1._header THEN [res |-> r1, threw |-> TRUE]
      ELSE IF h.threw THEN [res |-> r2, threw |-> TRUE]
      ELSE IF ~validStatusCode(c.status) THEN [res |-> r4, threw |-> TRUE]
      ELSE IF q.method = "HEAD"
      THEN [res |-> resEnd(logOp(r4, "end", q), << >>), threw |-> FALSE]
      ELSE [res |-> resEnd(logOp(r4, "end", q), body), threw |-> FALSE]

\* the listeners queued by onFinished(req, write) run in order when the
\* request finishes; one that throws ends the run
RECURSIVE runListeners(_, _, _)
runListeners(q, r, ls) ==
  IF ls = << >> THEN [res |-> r, threw |-> FALSE]
  ELSE LET w == write(q, r, Head(ls))
       IN  IF w.threw THEN w ELSE runListeners(q, w.res, Tail(ls))

(***************************************************************************)
(* State.                                                                  *)
(***************************************************************************)
VARIABLES
  req,        \* [method, url, originalUrl, finished, piped, flowing, remaining]
  res,        \* the response
  opts,       \* [env, NODE_ENV, onerror, app]
  err,        \* the value the caller passes to finish
  listeners,  \* closures registered with onFinished(req, write), in order
  immediates, \* calls scheduled with defer, in order
  emitted,    \* events emitted on opts.app, in order
  onerrorLog, \* invocations of opts.onerror: their arguments and res.finished then
  calls,      \* one record per invocation of finish: what it found and derived
  uncaught    \* an exception left a listener

vars == <<req, res, opts, err, listeners, immediates, emitted, onerrorLog, calls, uncaught>>

\* let env = opts.env || process.env.NODE_ENV || 'development'
envOf(o) ==
  IF o.env # "" THEN o.env ELSE IF o.NODE_ENV # "" THEN o.NODE_ENV ELSE "development"

\* the request unpiped and the listener registered, but the stream not resumed
sendResponseNoResume(q, r, ls, c) ==
  IF isFinished(q)
  THEN [req |-> q, res |-> write(q, r, c).res, listeners |-> ls,
        threw |-> write(q, r, c).threw]
  ELSE LET unpiped == [q EXCEPT !.piped = FALSE, !.flowing = FALSE]
       IN  [req |-> unpiped, res |-> r, listeners |-> Append(ls, c), threw |-> FALSE]

\* the document written without waiting for the request
sendResponseWithoutWaiting(q, r, ls, c) ==
  LET unpiped == [q EXCEPT !.piped = FALSE, !.flowing = FALSE]
      resumed == [unpiped EXCEPT !.flowing = TRUE]
  IN  IF isFinished(q)
      THEN [req |-> q, res |-> write(q, r, c).res, listeners |-> ls,
            threw |-> write(q, r, c).threw]
      ELSE [req |-> resumed, res |-> write(q, r, c).res, listeners |-> ls,
            threw |-> write(q, r, c).threw]

\* the completion listener registered twice
sendResponseListensTwice(q, r, ls, c) ==
  IF isFinished(q)
  THEN [req |-> q, res |-> write(q, r, c).res, listeners |-> ls,
        threw |-> write(q, r, c).threw]
  ELSE LET unpiped == [q EXCEPT !.piped = FALSE, !.flowing = FALSE]
           resumed == [unpiped EXCEPT !.flowing = TRUE]
       IN  [req |-> resumed, res |-> r, listeners |-> Append(Append(ls, c), c),
            threw |-> FALSE]

(***************************************************************************)
(* sendResponse(req, res, status, headers, message): what it leaves in     *)
(* req, res and the listener queue, and whether write, called at once,     *)
(* threw.                                                                  *)
(***************************************************************************)
sendResponse(q, r, ls, c) ==
  IF isFinished(q)
  THEN [req |-> q, res |-> write(q, r, c).res, listeners |-> ls,
        threw |-> write(q, r, c).threw]
  ELSE LET unpiped == [q EXCEPT !.piped = FALSE, !.flowing = FALSE]
           resumed == [unpiped EXCEPT !.flowing = TRUE]
       IN  [req |-> resumed, res |-> r, listeners |-> Append(ls, c), threw |-> FALSE]

\* the headers of the error taken whatever the status came from
deriveHeadersAlways(q, r, e, env) ==
  IF e.truthy
  THEN LET fromErr == getErrorStatusCode(e)
           status == IF fromErr = Undefined THEN getResponseStatusCode(r) ELSE fromErr
           headers == getErrorHeaders(e)
       IN  [status |-> status, headers |-> headers,
            message |-> getErrorMessage(e, status, env)]
  ELSE [status |-> Num(404), headers |-> HUndefined,
        message |-> <<"Cannot", " ", q.method, " ">> \o encodeUrl(getResourceName(q))]


\* the locals status, headers and msg of the handler when the headers are not sent
derive(q, r, e, env) ==
  IF e.truthy
  THEN LET fromErr == getErrorStatusCode(e)
           status == IF fromErr = Undefined THEN getResponseStatusCode(r) ELSE fromErr
           headers == IF fromErr = Undefined THEN HUndefined ELSE getErrorHeaders(e)
       IN  [status |-> status, headers |-> headers,
            message |-> getErrorMessage(e, status, env)]
  ELSE [status |-> Num(404), headers |-> HUndefined,
        message |-> <<"Cannot", " ", q.method, " ">> \o encodeUrl(getResourceName(q))]


(***************************************************************************)
(* finish(err), the handler returned by finalhandler: the state it leaves. *)
(* st is [req, res, listeners, immediates, emitted, onerrorLog, threw];    *)
(* threw tells whether the call ended with an exception.                   *)
(***************************************************************************)
CallRecord(sent, q, r, c, threw) ==
  [sent |-> sent, reqFinished |-> isFinished(q), reqPiped |-> q.piped,
   found |-> r.statusCode,
   status |-> c.status, headers |-> c.headers, message |-> c.message,
   threw |-> threw]

NoClosure == [status |-> Undefined, headers |-> HUndefined, message |-> << >>]

\* onerror called inside the handler, before the response is sent
respondOnerrorSync(st, o, e) ==
  LET c == derive(st.req, st.res, e, envOf(o))
      sr == sendResponse(st.req, st.res, st.listeners, c)
  IN  [req |-> sr.req,
       res |-> sr.res,
       listeners |-> sr.listeners,
       immediates |-> st.immediates,
       emitted |->
         IF o.app = "emitter"
         THEN Append(st.emitted,
                     [name |-> "errorDispatch", method |-> st.req.method,
                      url |-> encodeUrl(getResourceName(st.req))])
         ELSE st.emitted,
       onerrorLog |->
         IF e.truthy /\ o.onerror
         THEN Append(st.onerrorLog,
                     [args |-> [err |-> e, req |-> "req", res |-> "res"],
                      resFinished |-> st.res.finished])
         ELSE st.onerrorLog,
       threw |-> sr.threw]

\* lines 279-314: the handler once the headers are known not to be sent
respond(st, o, e) ==
  LET c == derive(st.req, st.res, e, envOf(o))
      sr == sendResponse(st.req, st.res, st.listeners, c)
  IN  [req |-> sr.req,
       res |-> sr.res,
       listeners |-> sr.listeners,
       immediates |->
         IF e.truthy /\ o.onerror
         THEN Append(st.immediates, [err |-> e, req |-> "req", res |-> "res"])
         ELSE st.immediates,
       emitted |->
         IF o.app = "emitter"
         THEN Append(st.emitted,
                     [name |-> "errorDispatch", method |-> st.req.method,
                      url |-> encodeUrl(getResourceName(st.req))])
         ELSE st.emitted,
       onerrorLog |-> st.onerrorLog,
       threw |-> sr.threw]

\* the guard skipped when an error is passed
finishGuardWithoutErrOnly(st, o, e) ==
  IF headersSent(st.res) /\ ~e.truthy
  THEN [st EXCEPT !.res = resEnd(logOp(st.res, "end", st.req), << >>)]
  ELSE respond(st, o, e)

finish(st, o, e) ==
  IF headersSent(st.res)
  THEN \* cannot actually respond
       [st EXCEPT !.res = resEnd(logOp(st.res, "end", st.req), << >>)]
  ELSE respond(st, o, e)

Finish ==
  /\ Len(calls) < MaxCalls
  /\ LET st == [req |-> req, res |-> res, listeners |-> listeners,
                immediates |-> immediates, emitted |-> emitted,
                onerrorLog |-> onerrorLog, threw |-> FALSE]
         out == finish(st, opts, err)
         sent == headersSent(res)
     IN  /\ req' = out.req
         /\ res' = out.res
         /\ listeners' = out.listeners
         /\ immediates' = out.immediates
         /\ emitted' = out.emitted
         /\ onerrorLog' = out.onerrorLog
         /\ calls' = Append(calls,
              CallRecord(sent, req, res,
                IF sent THEN NoClosure ELSE derive(req, res, err, envOf(opts)),
                out.threw))
  /\ UNCHANGED <<opts, err, uncaught>>

(***************************************************************************)
(* The request stream.  A flowing stream hands over its chunks and then    *)
(* ends; a stream piped to a slow consumer is paused by every chunk until  *)
(* the consumer drains.                                                    *)
(***************************************************************************)
ReqData ==
  /\ ~req.finished /\ req.flowing /\ req.remaining > 0
  /\ req' = [req EXCEPT !.remaining = @ - 1,
                        !.flowing = ~req.piped]
  /\ UNCHANGED <<res, opts, err, listeners, immediates, emitted, onerrorLog, calls, uncaught>>

DestDrain ==
  /\ ~req.finished /\ req.piped /\ ~req.flowing
  /\ req' = [req EXCEPT !.flowing = TRUE]
  /\ UNCHANGED <<res, opts, err, listeners, immediates, emitted, onerrorLog, calls, uncaught>>

\* the request finishes: on-finished runs the queued listeners once
ReqEnd ==
  /\ ~req.finished /\ req.flowing /\ req.remaining = 0
  /\ LET q == [req EXCEPT !.finished = TRUE]
         ran == runListeners(q, res, listeners)
     IN  /\ req' = q
         /\ res' = ran.res
         /\ uncaught' = (uncaught \/ ran.threw)
  /\ listeners' = << >>
  /\ UNCHANGED <<opts, err, immediates, emitted, onerrorLog, calls>>

\* the event loop runs the next scheduled call: opts.onerror(err, req, res)
RunImmediate ==
  /\ immediates # << >>
  /\ onerrorLog' = Append(onerrorLog,
       [args |-> Head(immediates), resFinished |-> res.finished])
  /\ immediates' = Tail(immediates)
  /\ UNCHANGED <<req, res, opts, err, listeners, emitted, calls, uncaught>>

(***************************************************************************)
(* Whoever handled the request before the final handler: it may have       *)
(* started the response (res.write('0')) and ended it (res.end('1')).      *)
(***************************************************************************)
ResWrite ==
  /\ calls = << >> /\ ~res.finished /\ res.body = << >>
  /\ res' = [res EXCEPT !._header = TRUE, !.body = Append(@, <<"0">>)]
  /\ UNCHANGED <<req, opts, err, listeners, immediates, emitted, onerrorLog, calls, uncaught>>

ResEndEarly ==
  /\ calls = << >> /\ res._header /\ ~res.finished
  /\ res' = resEnd(res, <<"1">>)
  /\ UNCHANGED <<req, opts, err, listeners, immediates, emitted, onerrorLog, calls, uncaught>>

Next ==
  \/ Finish
  \/ ReqData
  \/ DestDrain
  \/ ReqEnd
  \/ RunImmediate
  \/ ResWrite
  \/ ResEndEarly

(***************************************************************************)
(* Inputs.                                                                 *)
(***************************************************************************)
Stack == <<"Error:", " ", "boom", SectionSign, "\n", " ", " ", " ", " ", "at">>
Callable(text) == [callable |-> TRUE, text |-> text]
NotCallable == [callable |-> FALSE, text |-> << >>]

\* createError(message, props) of the tests: an Error with props assigned
createError(status, statusCode, headers) ==
  [truthy |-> TRUE, status |-> status, statusCode |-> statusCode,
   headers |-> headers, stack |-> Stack,
   toStr |-> Callable(<<"Error:", " ", "boom", SectionSign>>)]

LameString ==
  [truthy |-> TRUE, status |-> Undefined, statusCode |-> Undefined,
   headers |-> HUndefined, stack |-> << >>,
   toStr |-> Callable(<<"lame", " ", "string">>)]

NullPrototype ==
  [truthy |-> TRUE, status |-> Undefined, statusCode |-> Undefined,
   headers |-> HUndefined, stack |-> << >>, toStr |-> NotCallable]

CustomHeaders == HObject(<<<<"X-Custom-Header", "foo">>, <<"Content-Type", "text/plain">>>>)
RetryAfter == HObject(<<<<"Retry-After", "5">>>>)
\* headers that res.setHeader refuses: a value with a line break, a name with a space
BadValueHeaders == HObject(<<<<"X-Custom-Header", "foo">>, <<"X-Bad", "line\nbreak">>>>)
BadNameHeaders == HObject(<<<<"Bad Name", "x">>>>)

MainErrs ==
  {NoErr, LameString, NullPrototype,
   createError(Undefined, Undefined, CustomHeaders),
   createError(Num(400), Num(401), CustomHeaders),
   createError(Num(601), Num(429), RetryAfter),
   createError(Num(202), Undefined, RetryAfter),
   createError(Undefined, Num(501), HString),
   createError(Num(400), Undefined, BadValueHeaders),
   createError(Undefined, Num(410), BadNameHeaders),
   createError(Undefined, Undefined, BadValueHeaders)}

MainUrls == {UrlUndefined, Url(<<"/foo">>)}
MainOriginalUrls == {UrlUndefined}
MainMethods == {"GET", "HEAD"}
MainStatusCodes == {Num(200), Num(503)}
MainOpts ==
  [env : {"", "production"}, NODE_ENV : {""}, onerror : BOOLEAN,
   app : {"none", "plain", "emitter"}]

Powered == [n \in {"X-Powered-By"} |-> "Xprezzo"]

InitWith(E, M, U, OU, SC, O) ==
  /\ err \in E
  /\ req \in [method : M, url : U, originalUrl : OU, finished : {FALSE},
              piped : BOOLEAN, flowing : BOOLEAN, remaining : 0..MaxChunks]
  /\ res \in [statusCode : SC, statusMessage : {<<"OK">>}, headers : {Powered},
              _header : {FALSE}, finished : {FALSE}, body : {<< >>}, log : {<< >>}]
  /\ opts \in O
  /\ listeners = << >>
  /\ immediates = << >>
  /\ emitted = << >>
  /\ onerrorLog = << >>
  /\ calls = << >>
  /\ uncaught = FALSE

Init == InitWith(MainErrs, MainMethods, MainUrls, MainOriginalUrls, MainStatusCodes, MainOpts)

Spec == Init /\ [][Next]_vars

(***************************************************************************)
(* Scheduling.  req.resume() leaves the stream flowing, so its chunks are  *)
(* handed over and it ends; setImmediate callbacks run.  Nothing makes the *)
(* slow consumer drain, the caller invoke finish or anyone write early.    *)
(***************************************************************************)
DrainErrs == {NoErr, LameString, createError(Num(400), Num(401), CustomHeaders)}

InitDrain ==
  InitWith(DrainErrs, {"GET", "HEAD"}, {Url(<<"/foo">>)}, {UrlUndefined}, {Num(200)},
           [env : {""}, NODE_ENV : {""}, onerror : BOOLEAN, app : {"emitter"}])

FairSpec ==
  /\ InitDrain
  /\ [][Next]_vars
  /\ WF_vars(ReqData)
  /\ WF_vars(ReqEnd)
  /\ WF_vars(RunImmediate)

(***************************************************************************)
(* The status-like fields over their whole range: missing, not a number,   *)
(* NaN, below, at and above the limits, integer or not.                    *)
(***************************************************************************)
WideStatus ==
  {Undefined, OhNo, NaN, Num(202), Num(400), Num(599), Half(599), Num(600)}
WideStatusCode == {Undefined, Num(201), Num(401), Half(599), Num(601)}
WideResStatus ==
  {Num(200), Undefined, OhNo, NaN, Num(399), Num(400), Num(503), Num(599),
   Half(599), Num(600)}

StatusErrs ==
  {NoErr} \cup {createError(s, sc, RetryAfter) : s \in WideStatus, sc \in WideStatusCode}

InitStatus ==
  InitWith(StatusErrs, {"GET"}, {Url(<<"/foo">>)}, {UrlUndefined}, WideResStatus,
           [env : {""}, NODE_ENV : {""}, onerror : {TRUE}, app : {"emitter"}])

SpecStatus == InitStatus /\ [][Next]_vars

(***************************************************************************)
(* The inputs of the message: method and url for the 404, and for an error *)
(* its stack, its toString, its status and the environment.                *)
(***************************************************************************)
MessageUrls ==
  {UrlUndefined, Url(<<"/foo">>), Url(<<"/foo", "?", "bar=1">>),
   Url(<<"/", "<", "la", "'", "me", ">">>), Url(<<"/foo", "%20", SectionSign>>)}
MessageOriginalUrls == {UrlUndefined, Url(<<"/foo/bar", "?", "x">>)}

MessageErrs ==
  {[truthy |-> TRUE, status |-> st, statusCode |-> Undefined, headers |-> HUndefined,
    stack |-> sk, toStr |-> ts] :
     st \in {Undefined, Num(501), Num(599)},
     sk \in {<< >>, Stack},
     ts \in {NotCallable, Callable(<< >>), Callable(<<"lame", " ", "string">>)}}

InitMessage ==
  \/ InitWith({NoErr}, {"GET", "HEAD", "POST"}, MessageUrls, MessageOriginalUrls,
              {Num(200)},
              [env : {""}, NODE_ENV : {""}, onerror : {TRUE}, app : {"emitter"}])
  \/ InitWith(MessageErrs, {"GET"}, {Url(<<"/foo">>)}, {UrlUndefined},
              {Num(200), Num(503)},
              [env : {"", "production", "test"}, NODE_ENV : {"", "production"},
               onerror : {TRUE}, app : {"emitter"}])

SpecMessage == InitMessage /\ [][Next]_vars

\* the same with res.statusCode a value that compares: every value but NaN
InitFallback ==
  InitWith(StatusErrs, {"GET"}, {Url(<<"/foo">>)}, {UrlUndefined},
           WideResStatus \ {NaN},
           [env : {""}, NODE_ENV : {""}, onerror : {TRUE}, app : {"emitter"}])

SpecFallback == InitFallback /\ [][Next]_vars

(***************************************************************************)
(* A party that still holds the response after finish has been invoked (a  *)
(* handler that passed the request on and answers late): it starts the     *)
(* response while the handler waits for the request to finish.             *)
(***************************************************************************)
ResWriteLate ==
  /\ calls # << >> /\ listeners # << >>
  /\ ~res._header /\ ~res.finished
  /\ res' = [res EXCEPT !._header = TRUE, !.body = Append(@, <<"0">>)]
  /\ UNCHANGED <<req, opts, err, listeners, immediates, emitted, onerrorLog, calls, uncaught>>

NextLate ==
  \/ Next
  \/ ResWriteLate

SpecLate == Init /\ [][NextLate]_vars

(***************************************************************************)
(* Properties.                                                             *)
(***************************************************************************)
\* a step of the handler: one more invocation of finish
FinishStep == Len(calls') = Len(calls) + 1

Written == calls # << >> /\ ~calls[1].sent /\ res.finished

\* a number in [400, 600)
InErrorRange(v) == v.t = "number" /\ v.k # "nan" /\ v.n >= 400 /\ v.n < 600

\* a number in [400, 599]
InResponseRange(v) ==
  /\ v.t = "number" /\ v.k # "nan" /\ v.n >= 400
  /\ IF v.k = "half" THEN v.n < 599 ELSE v.n <= 599

ReferenceStatus(e, found) ==
  IF ~e.truthy THEN Num(404)
  ELSE IF InErrorRange(e.status) THEN e.status
  ELSE IF InErrorRange(e.statusCode) THEN e.statusCode
  ELSE IF InResponseRange(found) THEN found
  ELSE Num(500)

\* C2: the status every invocation derives (headers not sent) is the reference
\* function of err.status, err.statusCode and res.statusCode, and lies in
\* [400, 599].
StatusDerivation ==
  \A i \in 1..Len(calls) :
    ~calls[i].sent =>
      /\ calls[i].status = ReferenceStatus(err, calls[i].found)
      /\ InResponseRange(calls[i].status)

\* the same with every status-like field an integer, undefined or a string
IntegerFields ==
  /\ err.status.k \notin {"nan", "half"}
  /\ err.statusCode.k \notin {"nan", "half"}
  /\ res.statusCode.k \notin {"nan", "half"}

StatusDerivationOfIntegers ==
  IntegerFields =>
    \A i \in 1..Len(calls) :
      (~calls[i].sent /\ calls[i].found.k \notin {"nan", "half"}) =>
        /\ calls[i].status = ReferenceStatus(err, calls[i].found)
        /\ InResponseRange(calls[i].status)

\* neither err.status nor err.statusCode is a 4xx or 5xx value
ErrStatusOutside(e) == ~InErrorRange(e.status) /\ ~InErrorRange(e.statusCode)

FromError(e) == InErrorRange(e.status) \/ InErrorRange(e.statusCode)

\* the headers the handler sets itself
ReservedNames ==
  {"Content-Security-Policy", "X-Content-Type-Options", "Content-Type", "Content-Length"}

Has(headers, entry) == entry[1] \in DOMAIN headers /\ headers[entry[1]] = entry[2]

\* C4 as stated: the entries of err.headers are in the written response if
\* and only if the status came from err.status or err.statusCode.
ErrorHeadersIffFromError ==
  (Written /\ err.truthy /\ err.headers.t = "object" /\ err.headers.entries # << >>) =>
    ((\A k \in 1..Len(err.headers.entries) : Has(res.headers, err.headers.entries[k]))
       <=> FromError(err))

\* C4 as amended: every entry of err.headers under a name the handler does
\* not set itself is in the written response if and only if the status came
\* from err.status or err.statusCode.
ErrorHeadersApplied ==
  (Written /\ err.truthy /\ err.headers.t = "object") =>
    \A k \in 1..Len(err.headers.entries) :
      err.headers.entries[k][1] \notin ReservedNames =>
        (Has(res.headers, err.headers.entries[k]) <=> FromError(err))

\* an error with status 400 and headers was written: its X-Custom-Header is there
ErrorHeadersReached ==
  /\ Written /\ err.status = Num(400) /\ err.headers = CustomHeaders
  /\ Has(res.headers, <<"X-Custom-Header", "foo">>)
  /\ Has(res.headers, <<"X-Powered-By", "Xprezzo">>)

\* C5: every written response carries the two security headers, the content
\* type and the byte length of the document, whatever err.headers holds
\* under those names.
FixedHeadersWin ==
  Written =>
    /\ ReservedNames \subseteq DOMAIN res.headers
    /\ res.headers["Content-Security-Policy"] = "default-src 'none'"
    /\ res.headers["X-Content-Type-Options"] = "nosniff"
    /\ res.headers["Content-Type"] = "text/html; charset=utf-8"
    /\ res.headers["Content-Length"] =
         ToString(byteLength(createHtmlDocument(calls[1].message)))
    /\ req.method # "HEAD" =>
         /\ Len(res.body) = 1
         /\ res.headers["Content-Length"] = ToString(byteLength(res.body[1]))

\* an error whose headers name Content-Type was written with them applied,
\* and its document holds a two-byte character
FixedHeadersReached ==
  /\ Written /\ FromError(err) /\ req.method = "GET"
  /\ \E k \in 1..Len(err.headers.entries) : err.headers.entries[k][1] = "Content-Type"
  /\ res.headers["Content-Type"] = "text/html; charset=utf-8"
  /\ byteLength(res.body[1]) > charLength(res.body[1])

\* C6: once finish has been invoked on a HEAD request no step adds to the
\* body, on the headers-sent path as on the others, and what is written still
\* has the derived status and the fixed headers.
HeadNeverBody ==
  [][(req.method = "HEAD" /\ calls' # << >>) =>
       /\ res'.body = res.body
       /\ Written' =>
            /\ res'.statusCode = calls'[1].status
            /\ res'.statusMessage = statusMessageOf(calls'[1].status)
            /\ ReservedNames \subseteq DOMAIN res'.headers]_vars

\* an error was written for a HEAD request: status set, no body
HeadReached ==
  /\ req.method = "HEAD" /\ Written /\ err.truthy
  /\ res.statusCode = Num(400) /\ res.body = << >>

(***************************************************************************)
(* The message as the documentation states it.                             *)
(***************************************************************************)
\* the original pathname: of req.originalUrl when a string, else of req.url,
\* up to the query; "resource" when neither is a string
OriginalPath(q) ==
  LET u == IF q.originalUrl.t = "string" THEN q.originalUrl
           ELSE q.url
      cut == IF \E k \in 1..Len(u.text) : u.text[k] = "?"
             THEN CHOOSE k \in 1..Len(u.text) :
                    u.text[k] = "?" /\ \A j \in 1..(k - 1) : u.text[j] # "?"
             ELSE Len(u.text) + 1
  IN  IF u.t # "string" THEN <<"resource">> ELSE SubSeq(u.text, 1, cut - 1)

ReasonPhrase(status) ==
  IF statuses_message(status) = << >> THEN <<String(status)>>
  ELSE statuses_message(status)

ReferenceMessage(q, e, env, status) ==
  CASE ~e.truthy -> <<"Cannot", " ", q.method, " ">> \o encodeUrl(OriginalPath(q))
    [] e.truthy /\ env = "production" -> ReasonPhrase(status)
    [] e.truthy /\ env # "production" /\ e.stack # << >> -> e.stack
    [] e.truthy /\ env # "production" /\ e.stack = << >>
         /\ e.toStr.callable /\ e.toStr.text # << >> -> e.toStr.text
    [] OTHER -> ReasonPhrase(status)

\* C7: the message every invocation derives (headers not sent) is the
\* reference function of method, url, err, environment and derived status,
\* and the written body is the document of that message.
MessageDerivation ==
  /\ \A i \in 1..Len(calls) :
       ~calls[i].sent =>
         calls[i].message = ReferenceMessage(req, err, envOf(opts), calls[i].status)
  /\ (Written /\ req.method # "HEAD") =>
       res.body =
         <<createHtmlDocument(ReferenceMessage(req, err, envOf(opts), calls[1].status))>>

\* in production an error with a stack and status 501 was written as the phrase
MessageReached ==
  /\ Written /\ envOf(opts) = "production" /\ opts.env = ""
  /\ err.stack # << >> /\ err.status = Num(501)
  /\ calls[1].message = <<"Not", " ", "Implemented">>

Responding == {i \in 1..Len(calls) : ~calls[i].sent}

ErrorDispatchOnlyOnError ==
  /\ \A k \in 1..Len(emitted) :
       emitted[k] = [name |-> "errorDispatch", method |-> req.method,
                     url |-> encodeUrl(OriginalPath(req))]
  /\ Len(emitted) = IF opts.app = "emitter" /\ err.truthy THEN Len(calls) ELSE 0

(***************************************************************************)
(* Exceptions.                                                             *)
(***************************************************************************)
\* C11: no invocation of finish ends with an exception, whatever the error
\* (string, object without prototype, headers not an object or malformed,
\* status fields missing or not numbers) and whatever the state of the
\* request and the response.
NoExceptionEscapes ==
  \A i \in 1..Len(calls) : ~calls[i].threw

\* the headers hold an entry that res.setHeader refuses
Malformed(headers) ==
  \E k \in 1..Len(headers.entries) :
    ~validHeader(headers.entries[k][1], headers.entries[k][2])

\* an invocation ends with an exception only when it wrote at once (request
\* finished, headers not sent) and either took malformed headers from the
\* error or derived a status code that res.end refuses
EscapesOnlyFromWrite ==
  \A i \in 1..Len(calls) :
    calls[i].threw <=>
      /\ ~calls[i].sent /\ calls[i].reqFinished
      /\ Malformed(calls[i].headers) \/ ~validStatusCode(calls[i].status)

(***************************************************************************)
(* What the handler does to the response, and when.                        *)
(***************************************************************************)
\* how many entries of a log are of the operation op
count(log, op) == Cardinality({k \in 1..Len(log) : log[k].op = op})

\* C12: one invocation of finish writes the response at most once.  The
\* invocation itself either runs write once, or registers one listener, or
\* (headers sent) does neither, and calls res.end at most once; a step that
\* is not an invocation runs write only for listeners it takes off the
\* queue, and ends the response only from write.  So every invocation
\* accounts for at most one run of write and one end.
WrittenAtMostOnce ==
  /\ [][FinishStep =>
          /\ count(res'.log, "end") - count(res.log, "end") <= 1
          /\ (count(res'.log, "write") - count(res.log, "write"))
               + (Len(listeners') - Len(listeners)) <= 1
          /\ Len(listeners') >= Len(listeners)
          /\ headersSent(res) =>
               /\ count(res'.log, "write") = count(res.log, "write")
               /\ listeners' = listeners]_vars
  /\ [][~FinishStep =>
          /\ count(res'.log, "write") - count(res.log, "write")
               <= Len(listeners) - Len(listeners')
          /\ count(res'.log, "end") - count(res.log, "end")
               <= count(res'.log, "write") - count(res.log, "write")]_vars
  /\ [](count(res.log, "write") + Len(listeners) <= Cardinality(Responding))
  /\ [](count(res.log, "end") <= Len(calls))
  /\ [](req.finished => listeners = << >>)

\* a single invocation on an unfinished request: its listener has fired, the
\* document was written once and the response ended once
WrittenOnceReached ==
  /\ Len(calls) = 1 /\ ~calls[1].sent /\ ~calls[1].reqFinished
  /\ req.finished /\ listeners = << >>
  /\ count(res.log, "write") = 1 /\ count(res.log, "end") = 1
  /\ Len(res.body) = 1

\* C13: the handler writes status, headers and body only once the request
\* is finished.  An invocation that finds the request finished (headers not
\* sent) runs write in that step and leaves the request alone; one that
\* finds it unfinished leaves the response untouched and the request
\* unpiped and flowing, with one more listener; and no step that leaves the
\* request unfinished runs write or changes status, headers or (once finish
\* has been invoked) body.
DrainBeforeWrite ==
  /\ [](\A k \in 1..Len(res.log) :
          res.log[k].op = "write" => res.log[k].reqFinished)
  /\ [][(FinishStep /\ ~headersSent(res) /\ isFinished(req)) =>
          /\ count(res'.log, "write") = count(res.log, "write") + 1
          /\ req' = req
          /\ listeners' = listeners]_vars
  /\ [][(FinishStep /\ ~headersSent(res) /\ ~isFinished(req)) =>
          /\ res' = res
          /\ ~req'.finished /\ ~req'.piped /\ req'.flowing
          /\ req'.remaining = req.remaining
          /\ Len(listeners') = Len(listeners) + 1]_vars
  /\ [][~req'.finished =>
          /\ count(res'.log, "write") = count(res.log, "write")
          /\ calls' # << >> => res'.body = res.body
          /\ res'.statusCode = res.statusCode
          /\ res'.statusMessage = res.statusMessage
          /\ res'.headers = res.headers]_vars
  /\ [][(~req.finished /\ req'.finished) =>
          count(res'.log, "write") - count(res.log, "write") <= Len(listeners)]_vars

\* finish found the request piped and unfinished; the one run of write came
\* with the finished notification, on a response whose headers were not sent
DrainThenWriteReached ==
  /\ Len(calls) = 1 /\ ~calls[1].sent
  /\ calls[1].reqPiped /\ ~calls[1].reqFinished
  /\ ~req.piped /\ req.finished
  /\ res.log = <<[op |-> "write", sent |-> FALSE, reqFinished |-> TRUE],
                 [op |-> "end", sent |-> FALSE, reqFinished |-> TRUE]>>

\* C14: the handler never sets status, sets headers or writes the document
\* on a response whose headers are sent: no run of write finds them sent,
\* and no step changes the status code, the status message or the headers
\* of such a response, or raises from a listener; also when the headers
\* were sent between the invocation and the finished notification.
NoResponseAttemptAfterHeadersSent ==
  /\ [](\A k \in 1..Len(res.log) : res.log[k].op = "write" => ~res.log[k].sent)
  /\ [][headersSent(res) =>
          /\ res'.statusCode = res.statusCode
          /\ res'.statusMessage = res.statusMessage
          /\ res'.headers = res.headers
          /\ uncaught' = uncaught]_vars

\* a run of write has found the headers sent
LateWrite == \E k \in 1..Len(res.log) : res.log[k].op = "write" /\ res.log[k].sent

\* what does hold: write finds the headers sent only when it ran from a
\* listener, for an invocation that found the request unfinished
LateWriteOnlyDeferred ==
  LateWrite => \E i \in 1..Len(calls) : ~calls[i].sent /\ ~calls[i].reqFinished

\* one invocation, then another party starts the response, then the request
\* finishes: write has set the status of the started response and thrown
LateWriteByOtherParty ==
  /\ Len(calls) = 1 /\ LateWrite /\ uncaught
  /\ res.body = << <<"0">> >> /\ ~res.finished
  /\ res.statusCode = calls[1].status /\ calls[1].found # calls[1].status

====
